---- MODULE Spec2Model ----
(***************************************************************************)
(* Formcarve: the schema-driven validation engine of the form preview      *)
(* (SimplePreviewRenderer.validateField in form-preview-modal.tsx), the    *)
(* rendering sessions of the preview and of FormRenderer, the field list   *)
(* of the builder and the JSON export of a schema.                         *)
(*                                                                         *)
(* Strings the code inspects character by character (trim, length,         *)
(* parseFloat, RegExp.test) are sequences of one-character strings.        *)
(* Messages, labels and pattern sources, which the code only concatenates  *)
(* or compares, are TLA+ strings.                                          *)
(***************************************************************************)
EXTENDS Integers, Sequences, FiniteSets, TLC

VARIABLES
    \* one call of validateField
    field, value, result,
    \* a rendering session: the component that renders (the preview of the
    \* builder or FormRenderer), the schema, the state of the rendered
    \* controls, the errors state of the preview, and the last event handled
    component, schema, controls, errors, lastEvent,
    \* what the component has drawn for each field of the schema
    rendered,
    \* the form builder: the initialFields prop, the fields and selectedField
    \* states, the field list the callbacks of the last render captured, the
    \* onFieldsChange calls scheduled with setTimeout, the argument of the last
    \* onFieldsChange call, the number of ids generated, and the number of
    \* events (handler calls and prop changes) the builder has seen
    initialFields, fields, selectedField, captured, pending, notified, idsGenerated,
    events,
    \* the export of a schema: the FormSchema the properties panel edits, its
    \* JSON text, and the value parsed back from that text
    draft, json, parsed

validateVars == <<field, value, result>>

sessionVars == <<component, schema, controls, errors, lastEvent, rendered>>

builderVars ==
    <<initialFields, fields, selectedField, captured, pending, notified, idsGenerated, events>>

exportVars == <<draft, json, parsed>>

vars == <<field, value, result, component, schema, controls, errors, lastEvent, rendered,
          initialFields, fields, selectedField, captured, pending, notified, idsGenerated,
          events, draft, json, parsed>>

(***************************************************************************)
(* Bounds of the model.                                                    *)
(***************************************************************************)
\* Every string over Alphabet of at most MaxLen characters is a candidate value.
MaxLen == 2

Alphabet == {"a", " ", "1", "5", "."}

WhiteSpace == {" ", "\t", "\n"}

Digits == {"0", "1", "2", "3", "4", "5", "6", "7", "8", "9"}

RECURSIVE StringsUpTo(_)
StringsUpTo(n) ==
    IF n = 0 THEN {<< >>}
    ELSE LET shorter == StringsUpTo(n - 1)
         IN shorter \cup {Append(s, c) : s \in {t \in shorter : Len(t) = n - 1}, c \in Alphabet}

\* Longer values that the boundary cases and the README scenarios need.
ExtraStrings ==
    { <<"a", "@", "b">>,
      <<"a", "@", "b", ".", "c", "o", "m">>,
      <<"-", "1">>,
      <<"5", ".", "1">>,
      <<"1", "1", "1">>,
      <<" ", "a", " ">> }

(***************************************************************************)
(* Values a control hands to validateField: e.target.value (a string),     *)
(* e.target.checked (a boolean), FormData.get (a string or null).          *)
(***************************************************************************)
Null == [kind |-> "null", b |-> FALSE, s |-> << >>]

Bool(x) == [kind |-> "bool", b |-> x, s |-> << >>]

Str(x) == [kind |-> "str", b |-> FALSE, s |-> x]

\* Optional numeric members of FormField.validation.
Absent == [set |-> FALSE, v |-> 0]

Some(n) == [set |-> TRUE, v |-> n]

(***************************************************************************)
(* The patterns of the model: the README / builder e-mail preset, an       *)
(* anchored digit pattern, an unanchored literal and a pattern that is no  *)
(* regular expression.  "" stands for an absent (or empty) pattern: the    *)
(* code only tests it for truthiness.                                      *)
(***************************************************************************)
EmailPattern == "^[^\\s@]+@[^\\s@]+\\.[^\\s@]+$"

DigitsPattern == "^\\d+$"

LiteralPattern == "a"

InvalidPattern == "("

\* A pattern written for the text of a checked checkbox.
CheckedPattern == "^true$"

Patterns == {"", EmailPattern, DigitsPattern, LiteralPattern, InvalidPattern}

FieldTypes == {"email", "number", "select", "checkbox"}

TextLike == {"text", "email", "textarea", "phone", "url"}

Validations ==
    [ minLength : {Absent, Some(2)},
      maxLength : {Absent, Some(0), Some(2)},
      min : {Absent, Some(0), Some(5)},
      max : {Absent, Some(5)},
      pattern : Patterns,
      customMessage : {"", "Custom"} ]

\* FormField, restricted to the members validateField reads.
FormField ==
    [ id : {"f1"},
      type : FieldTypes,
      label : {"email"},
      required : BOOLEAN,
      options : {<<"X", "Y">>},
      validation : Validations ]

\* The values the control rendered for a field of this type can produce.
ControlValues(f) ==
    CASE f.type = "checkbox" -> {Null, Bool(TRUE), Bool(FALSE), Str(<<"o", "n">>)}
      [] f.type = "select" -> {Null, Str(<< >>)} \cup {Str(<<f.options[i]>>) : i \in DOMAIN f.options}
      [] OTHER -> {Null} \cup {Str(s) : s \in StringsUpTo(MaxLen) \cup ExtraStrings}

(***************************************************************************)
(* JavaScript primitives used by validateField.                            *)
(***************************************************************************)
\* !value
Falsy(v) ==
    \/ v.kind = "null"
    \/ v.kind = "bool" /\ ~v.b
    \/ v.kind = "str" /\ v.s = << >>

\* value.toString(), for a value that is not null
toString(v) ==
    IF v.kind = "bool"
    THEN IF v.b THEN <<"t", "r", "u", "e">> ELSE <<"f", "a", "l", "s", "e">>
    ELSE v.s

RECURSIVE TrimStart(_)
TrimStart(s) ==
    IF s # << >> /\ Head(s) \in WhiteSpace THEN TrimStart(Tail(s)) ELSE s

RECURSIVE TrimEnd(_)
TrimEnd(s) ==
    IF s # << >> /\ s[Len(s)] \in WhiteSpace THEN TrimEnd(SubSeq(s, 1, Len(s) - 1)) ELSE s

\* String.prototype.trim
trim(s) == TrimEnd(TrimStart(s))

DigitValue(c) ==
    CASE c = "0" -> 0 [] c = "1" -> 1 [] c = "2" -> 2 [] c = "3" -> 3 [] c = "4" -> 4
      [] c = "5" -> 5 [] c = "6" -> 6 [] c = "7" -> 7 [] c = "8" -> 8 [] c = "9" -> 9

\* The longest prefix of s made of digits: <<number read, digits read>>.
RECURSIVE ReadDigits(_, _, _)
ReadDigits(s, acc, n) ==
    IF s # << >> /\ Head(s) \in Digits
    THEN ReadDigits(Tail(s), acc * 10 + DigitValue(Head(s)), n + 1)
    ELSE <<acc, n>>

RECURSIVE Pow10(_)
Pow10(n) == IF n = 0 THEN 1 ELSE 10 * Pow10(n - 1)

\* parseFloat: leading white space is skipped, then the longest prefix that is
\* a decimal literal (sign, digits, fraction) is read; NaN when there is none.
\* The number is num / den with den a power of ten.  Exponents and "Infinity"
\* need characters that no value of the model holds.
parseFloat(str) ==
    LET t == TrimStart(str)
        signed == t # << >> /\ Head(t) \in {"-", "+"}
        neg == t # << >> /\ Head(t) = "-"
        u == IF signed THEN Tail(t) ELSE t
        ip == ReadDigits(u, 0, 0)
        afterInt == SubSeq(u, ip[2] + 1, Len(u))
        hasDot == afterInt # << >> /\ Head(afterInt) = "."
        fp == IF hasDot THEN ReadDigits(Tail(afterInt), 0, 0) ELSE <<0, 0>>
        mag == ip[1] * Pow10(fp[2]) + fp[1]
    IN IF ip[2] = 0 /\ fp[2] = 0
       THEN [nan |-> TRUE, num |-> 0, den |-> 1]
       ELSE [nan |-> FALSE, num |-> IF neg THEN 0 - mag ELSE mag, den |-> Pow10(fp[2])]

isNaN(x) == x.nan

\* numValue < bound and numValue > bound, for a number that is not NaN
NumLess(x, bound) == x.num < bound * x.den

NumGreater(x, bound) == x.num > bound * x.den

(***************************************************************************)
(* new RegExp(pattern) and RegExp.prototype.test.  A compiled expression   *)
(* is a sequence of character classes, each taken once or one-or-more      *)
(* times, with optional ^ and $ anchors; test searches every start         *)
(* position unless ^ anchors it.  new RegExp of a string that is no        *)
(* regular expression throws a SyntaxError.                                *)
(***************************************************************************)
Lit(c) == [neg |-> FALSE, chars |-> {c}]

NotSpaceOrAt == [neg |-> TRUE, chars |-> WhiteSpace \cup {"@"}]

Once(cls) == [cls |-> cls, plus |-> FALSE]

Plus(cls) == [cls |-> cls, plus |-> TRUE]

RegExp(pattern) ==
    CASE pattern = EmailPattern ->
            [throws |-> FALSE, bol |-> TRUE, eol |-> TRUE,
             items |-> <<Plus(NotSpaceOrAt), Once(Lit("@")), Plus(NotSpaceOrAt),
                         Once(Lit(".")), Plus(NotSpaceOrAt)>>]
      [] pattern = DigitsPattern ->
            [throws |-> FALSE, bol |-> TRUE, eol |-> TRUE,
             items |-> <<Plus([neg |-> FALSE, chars |-> Digits])>>]
      [] pattern = LiteralPattern ->
            [throws |-> FALSE, bol |-> FALSE, eol |-> FALSE, items |-> <<Once(Lit("a"))>>]
      [] pattern = InvalidPattern ->
            [throws |-> TRUE, bol |-> FALSE, eol |-> FALSE, items |-> << >>]
      [] pattern = CheckedPattern ->
            [throws |-> FALSE, bol |-> TRUE, eol |-> TRUE,
             items |-> <<Once(Lit("t")), Once(Lit("r")), Once(Lit("u")), Once(Lit("e"))>>]

InClass(c, cls) == (c \in cls.chars) # cls.neg

\* Can items k.. of the expression match s from position i on?
RECURSIVE MatchFrom(_, _, _, _)
MatchFrom(re, k, s, i) ==
    IF k > Len(re.items)
    THEN ~re.eol \/ i = Len(s) + 1
    ELSE /\ i <= Len(s)
         /\ InClass(s[i], re.items[k].cls)
         /\ \/ MatchFrom(re, k + 1, s, i + 1)
            \/ re.items[k].plus /\ MatchFrom(re, k, s, i + 1)

test(re, s) ==
    \E start \in (IF re.bol THEN {1} ELSE 1..(Len(s) + 1)) : MatchFrom(re, 1, s, start)

(***************************************************************************)
(* validateField(field, value): string | null.  The result carries the     *)
(* returned message (msg, "" for null) and, in kind, the return statement  *)
(* that produced it; kind "throw" is the SyntaxError of new RegExp.        *)
(***************************************************************************)
Valid == [kind |-> "valid", msg |-> ""]

Error(kind, msg) == [kind |-> kind, msg |-> msg]

Thrown == [kind |-> "throw", msg |-> "SyntaxError"]

NotCalled == [kind |-> "none", msg |-> ""]

\* A mutation of Message: the generated text is returned although a custom
\* message is configured.
MessageIgnoringCustom(f, generated) == generated

\* field.validation?.customMessage || generated
Message(f, generated) ==
    IF f.validation.customMessage # "" THEN f.validation.customMessage ELSE generated

\* A mutation of IsEmpty: the value is not trimmed.
IsEmptyNoTrim(v) == Falsy(v)

\* !value || value.toString().trim() === ''
IsEmpty(v) == Falsy(v) \/ trim(toString(v)) = << >>

\* field.validation?.minLength && ...: the bound is consulted only when truthy
Truthy(opt) == opt.set /\ opt.v # 0

\* A mutation of RequiredFails: the required flag is not read.
RequiredFailsUnconditional(f, v) == IsEmpty(v)

\* line 26: field.required && (!value || value.toString().trim() === '')
RequiredFails(f, v) == f.required /\ IsEmpty(v)

\* line 33
TooShort(f, v) ==
    Truthy(f.validation.minLength) /\ Len(toString(v)) < f.validation.minLength.v

\* line 37
TooLong(f, v) ==
    Truthy(f.validation.maxLength) /\ Len(toString(v)) > f.validation.maxLength.v

\* lines 42-44
BelowMin(f, v) ==
    /\ f.type = "number"
    /\ f.validation.min.set
    /\ LET numValue == parseFloat(toString(v))
       IN isNaN(numValue) \/ NumLess(numValue, f.validation.min.v)

\* A mutation of AboveMax: a value that is no number passes the max check.
AboveMaxIgnoringNaN(f, v) ==
    /\ f.type = "number"
    /\ f.validation.max.set
    /\ LET numValue == parseFloat(toString(v))
       IN ~isNaN(numValue) /\ NumGreater(numValue, f.validation.max.v)

\* lines 49-51
AboveMax(f, v) ==
    /\ f.type = "number"
    /\ f.validation.max.set
    /\ LET numValue == parseFloat(toString(v))
       IN isNaN(numValue) \/ NumGreater(numValue, f.validation.max.v)

\* lines 57-58: new RegExp throws
PatternThrows(f, v) == f.validation.pattern # "" /\ RegExp(f.validation.pattern).throws

\* A mutation of PatternFails: the whole value has to match (implicit anchors).
PatternFailsAnchored(f, v) ==
    /\ f.validation.pattern # ""
    /\ LET regex == RegExp(f.validation.pattern)
       IN ~test([regex EXCEPT !.bol = TRUE, !.eol = TRUE], toString(v))

\* lines 57-59
PatternFails(f, v) ==
    f.validation.pattern # "" /\ ~test(RegExp(f.validation.pattern), toString(v))

\* A mutation of validateField: the numeric bounds are checked before the
\* length bounds.
validateFieldNumericFirst(f, v) ==
    LET val == f.validation
    IN IF RequiredFails(f, v)
       THEN Error("required", Message(f, f.label \o " is required"))
       ELSE IF IsEmpty(v)
       THEN Valid
       ELSE IF BelowMin(f, v)
       THEN Error("min", Message(f, f.label \o " must be at least " \o ToString(val.min.v)))
       ELSE IF AboveMax(f, v)
       THEN Error("max", Message(f, f.label \o " must be no more than " \o ToString(val.max.v)))
       ELSE IF TooShort(f, v)
       THEN Error("minLength", Message(f, f.label \o " must be at least "
                                          \o ToString(val.minLength.v) \o " characters"))
       ELSE IF TooLong(f, v)
       THEN Error("maxLength", Message(f, f.label \o " must be no more than "
                                          \o ToString(val.maxLength.v) \o " characters"))
       ELSE IF PatternThrows(f, v)
       THEN Thrown
       ELSE IF PatternFails(f, v)
       THEN Error("pattern", Message(f, f.label \o " format is invalid"))
       ELSE Valid

\* A mutation of validateField: the pattern is compiled before the length
\* and numeric checks.
validateFieldPatternFirst(f, v) ==
    IF ~RequiredFails(f, v) /\ ~IsEmpty(v) /\ PatternThrows(f, v)
    THEN Thrown
    ELSE validateFieldNumericFirst(f, v)

validateField(f, v) ==
    LET val == f.validation
    IN IF RequiredFails(f, v)
       THEN Error("required", Message(f, f.label \o " is required"))
       ELSE IF IsEmpty(v)
       THEN Valid
       ELSE IF TooShort(f, v)
       THEN Error("minLength", Message(f, f.label \o " must be at least "
                                          \o ToString(val.minLength.v) \o " characters"))
       ELSE IF TooLong(f, v)
       THEN Error("maxLength", Message(f, f.label \o " must be no more than "
                                          \o ToString(val.maxLength.v) \o " characters"))
       ELSE IF BelowMin(f, v)
       THEN Error("min", Message(f, f.label \o " must be at least " \o ToString(val.min.v)))
       ELSE IF AboveMax(f, v)
       THEN Error("max", Message(f, f.label \o " must be no more than " \o ToString(val.max.v)))
       ELSE IF PatternThrows(f, v)
       THEN Thrown
       ELSE IF PatternFails(f, v)
       THEN Error("pattern", Message(f, f.label \o " format is invalid"))
       ELSE Valid

(***************************************************************************)
(* The specification: a field of the schema and a value of its control are *)
(* drawn, and validateField is called on them.                             *)
(***************************************************************************)
\* The record of the last event a session handled: the handler that ran, the
\* field it was for, how it ended, how many times the success branch (the
\* onSubmit callback) ran, the ids passed to validateField and the payload.
Event(kind, id, outcome, calls, validated, data) ==
    [kind |-> kind, id |-> id, outcome |-> outcome, calls |-> calls,
     validated |-> validated, data |-> data]

NoEvent == Event("none", "", "none", 0, {}, << >>)

\* No rendering session is open.
NoSession ==
    /\ component = "none"
    /\ schema = << >>
    /\ controls = << >>
    /\ errors = << >>
    /\ lastEvent = NoEvent
    /\ rendered = << >>

\* No builder is mounted.
NoBuilder ==
    /\ initialFields = << >>
    /\ fields = << >>
    /\ selectedField = Null
    /\ captured = << >>
    /\ pending = << >>
    /\ notified = << >>
    /\ idsGenerated = 0
    /\ events = 0

\* No schema is being exported.
NoExport ==
    /\ draft = << >>
    /\ json = << >>
    /\ parsed = << >>

Init ==
    /\ field \in FormField
    /\ value \in ControlValues(field)
    /\ result = NotCalled
    /\ NoSession
    /\ NoBuilder
    /\ NoExport

\* validateField(field, value), as handleInputChange and handleSubmit call it
CallValidateField ==
    /\ result' = validateField(field, value)
    /\ UNCHANGED <<field, value>>
    /\ UNCHANGED sessionVars
    /\ UNCHANGED builderVars
    /\ UNCHANGED exportVars

Next == CallValidateField

Spec == Init /\ [][Next]_vars

Called == result # NotCalled

(***************************************************************************)
(* Vocabulary of the properties.                                           *)
(***************************************************************************)
\* An empty value: null/absent, the empty or a white-space-only string, or
\* the false of an unchecked checkbox.
EmptyValue(v) ==
    \/ v = Null
    \/ v = Bool(FALSE)
    \/ v.kind = "str" /\ \A i \in 1..Len(v.s) : v.s[i] \in WhiteSpace

CustomMessageSet == field.validation.customMessage # ""

\* The message a failure resolves to: customMessage when set, else the
\* generated text.
Resolved(generated) ==
    IF CustomMessageSet THEN field.validation.customMessage ELSE generated

PatternIsRegExp == field.validation.pattern # InvalidPattern

\* The text of the value, for a value that is not null.
Text == IF value.kind = "bool" THEN (IF value.b THEN <<"t", "r", "u", "e">> ELSE <<"f", "a", "l", "s", "e">>)
        ELSE value.s

(***************************************************************************)
(* C1. For a required field and an empty value (null, "", white space      *)
(* only, or false), validateField returns an error whose message is        *)
(* customMessage when set and "<label> is required" otherwise; it is the   *)
(* required check that answers, whatever else the field configures (an     *)
(* invalid pattern is not even compiled).                                  *)
(***************************************************************************)
C1_RequiredEmpty ==
    (Called /\ field.required /\ EmptyValue(value)) =>
        /\ result.kind = "required"
        /\ result.msg = Resolved(field.label \o " is required")

C1_Witness ==
    /\ Called
    /\ field.required
    /\ value = Str(<<" ", " ">>)
    /\ field.validation.pattern = InvalidPattern
    /\ ~CustomMessageSet
    /\ result.msg = "email is required"

(***************************************************************************)
(* C2. Short-circuit law: for a field that is not required and an empty    *)
(* value, validateField returns no error, whatever minLength, maxLength,   *)
(* min, max or pattern are configured.                                     *)
(***************************************************************************)
C2_OptionalEmptyValid ==
    (Called /\ ~field.required /\ EmptyValue(value)) => result = Valid

C2_Witness ==
    /\ Called
    /\ ~field.required
    /\ value = Str(<< >>)
    /\ field.type = "number"
    /\ field.validation.min = Some(5)
    /\ field.validation.minLength = Some(2)
    /\ field.validation.pattern = DigitsPattern
    /\ result = Valid

(***************************************************************************)
(* C3. Precedence: the result is the failure of the first failing check    *)
(* in the order required, minLength, maxLength, min, max, pattern, with    *)
(* that check's message, and it is valid exactly when no check fails.      *)
(* Each check's own condition is the one validateField evaluates; the      *)
(* checks after the required one apply to non-empty values only.  Fields   *)
(* whose pattern is a regular expression.                                  *)
(***************************************************************************)
CheckOrder == <<"required", "minLength", "maxLength", "min", "max", "pattern">>

CheckFails(k) ==
    CASE CheckOrder[k] = "required" -> RequiredFails(field, value)
      [] CheckOrder[k] = "minLength" -> ~IsEmpty(value) /\ TooShort(field, value)
      [] CheckOrder[k] = "maxLength" -> ~IsEmpty(value) /\ TooLong(field, value)
      [] CheckOrder[k] = "min" -> ~IsEmpty(value) /\ BelowMin(field, value)
      [] CheckOrder[k] = "max" -> ~IsEmpty(value) /\ AboveMax(field, value)
      [] CheckOrder[k] = "pattern" -> ~IsEmpty(value) /\ PatternFails(field, value)

CheckMessage(k) ==
    LET val == field.validation
    IN Resolved(
        CASE CheckOrder[k] = "required" -> field.label \o " is required"
          [] CheckOrder[k] = "minLength" ->
                field.label \o " must be at least " \o ToString(val.minLength.v) \o " characters"
          [] CheckOrder[k] = "maxLength" ->
                field.label \o " must be no more than " \o ToString(val.maxLength.v) \o " characters"
          [] CheckOrder[k] = "min" -> field.label \o " must be at least " \o ToString(val.min.v)
          [] CheckOrder[k] = "max" -> field.label \o " must be no more than " \o ToString(val.max.v)
          [] CheckOrder[k] = "pattern" -> field.label \o " format is invalid")

FirstFailing(k) == CheckFails(k) /\ \A j \in 1..(k - 1) : ~CheckFails(j)

C3_FirstFailingCheckWins ==
    (Called /\ PatternIsRegExp) =>
        /\ \A k \in DOMAIN CheckOrder :
              /\ (result.kind = CheckOrder[k]) <=> FirstFailing(k)
              /\ FirstFailing(k) => result.msg = CheckMessage(k)
        /\ (result = Valid) <=> (\A k \in DOMAIN CheckOrder : ~CheckFails(k))

\* A number field whose value "a" is too short, no number and fails the
\* pattern: the minLength message is the one returned.
C3_Witness ==
    /\ Called
    /\ field.type = "number"
    /\ value = Str(<<"a">>)
    /\ field.validation.minLength = Some(2)
    /\ field.validation.min = Some(5)
    /\ field.validation.max = Some(5)
    /\ field.validation.pattern = DigitsPattern
    /\ ~CustomMessageSet
    /\ result.msg = "email must be at least 2 characters"

(***************************************************************************)
(* C4. Length bounds are inclusive: for a non-empty value of a text-like   *)
(* field the result is the minLength failure exactly when minLength is set *)
(* and length < minLength, and the maxLength failure exactly when that     *)
(* passes, maxLength is set and length > maxLength; each with its          *)
(* generated message unless customMessage replaces it.                     *)
(* The code does not satisfy this: a maxLength of 0 is never consulted.    *)
(***************************************************************************)
C4_LengthBoundsInclusive ==
    (Called /\ field.type \in TextLike /\ ~EmptyValue(value)) =>
        LET val == field.validation
            short == val.minLength.set /\ Len(Text) < val.minLength.v
            long == ~short /\ val.maxLength.set /\ Len(Text) > val.maxLength.v
        IN /\ (result.kind = "minLength") <=> short
           /\ short => result.msg = Resolved(field.label \o " must be at least "
                                              \o ToString(val.minLength.v) \o " characters")
           /\ (result.kind = "maxLength") <=> long
           /\ long => result.msg = Resolved(field.label \o " must be no more than "
                                             \o ToString(val.maxLength.v) \o " characters")

(***************************************************************************)
(* C5. Length bounds apply to text-like types only: for a field of any     *)
(* other type (number, select, checkbox) validateField never returns a     *)
(* minLength/maxLength error.                                              *)
(* The code does not satisfy this: it reads the length bounds of every     *)
(* field, whatever its type.                                               *)
(***************************************************************************)
C5_LengthBoundsTextLikeOnly ==
    (Called /\ field.type \notin TextLike) => result.kind \notin {"minLength", "maxLength"}

(***************************************************************************)
(* C6. Numeric bounds are inclusive and for number fields only: for a      *)
(* number field and a non-empty value that parses to v, the result is the  *)
(* min failure exactly when min is set and v < min, and the max failure    *)
(* exactly when max is set, the min check passes and v > max; for a field  *)
(* of another type the result is never a min or max failure.               *)
(* The code does not satisfy this: a length bound of a number field is     *)
(* checked first (C5).                                                     *)
(***************************************************************************)
C6_NumericBoundsInclusive ==
    (Called /\ ~EmptyValue(value)) =>
        IF field.type = "number"
        THEN LET val == field.validation
                 v == parseFloat(Text)
                 below == val.min.set /\ v.num < val.min.v * v.den
                 above == val.max.set /\ ~below /\ v.num > val.max.v * v.den
             IN ~v.nan =>
                  /\ (result.kind = "min") <=> below
                  /\ below => result.msg = Resolved(field.label \o " must be at least "
                                                     \o ToString(val.min.v))
                  /\ (result.kind = "max") <=> above
                  /\ above => result.msg = Resolved(field.label \o " must be no more than "
                                                     \o ToString(val.max.v))
        ELSE result.kind \notin {"min", "max"}

(***************************************************************************)
(* C7. A number field, a non-empty value that is no number, min or max     *)
(* set.  As claimed: the result is always the minimum-bound failure.       *)
(***************************************************************************)
UnparsableNumber ==
    /\ field.type = "number"
    /\ ~EmptyValue(value)
    /\ parseFloat(Text).nan
    /\ field.validation.min.set \/ field.validation.max.set

Matches(p, s) ==
    CASE p = EmailPattern ->
            \E i, j \in 1..Len(s) :
                /\ 1 < i /\ i + 1 < j /\ j < Len(s)
                /\ s[i] = "@" /\ s[j] = "."
                /\ \A k \in (1..Len(s)) \ {i} : s[k] \notin WhiteSpace \cup {"@"}
      [] p = DigitsPattern -> s # << >> /\ \A k \in 1..Len(s) : s[k] \in Digits
      [] p = LiteralPattern -> \E k \in 1..Len(s) : s[k] = "a"

ReachesPatternCheck ==
    /\ ~EmptyValue(value)
    /\ ~TooShort(field, value)
    /\ ~TooLong(field, value)
    /\ ~BelowMin(field, value)
    /\ ~AboveMax(field, value)

C8_PatternCheck ==
    (Called /\ PatternIsRegExp /\ ReachesPatternCheck) =>
        IF field.validation.pattern # "" /\ ~Matches(field.validation.pattern, Text)
        THEN /\ result.kind = "pattern"
             /\ result.msg = Resolved(field.label \o " format is invalid")
        ELSE result = Valid

\* Scenario A
C8_Witness ==
    /\ Called
    /\ field.type = "email"
    /\ field.required
    /\ field.validation.pattern = EmailPattern
    /\ value = Str(<<"a", "@", "b">>)
    /\ result.msg = "email format is invalid"

(***************************************************************************)
(* C9. customMessage overrides every generated message: for a field with   *)
(* a non-empty customMessage, whenever validateField returns an error the  *)
(* message is customMessage, and the value fails exactly when it fails for *)
(* the same field without customMessage.                                   *)
(***************************************************************************)
WithoutCustomMessage(f) == [f EXCEPT !.validation.customMessage = ""]

IsError(r) == r.kind \notin {"valid", "throw", "none"}

C9_CustomMessageOverrides ==
    (Called /\ CustomMessageSet) =>
        /\ IsError(result) => result.msg = field.validation.customMessage
        /\ IsError(result) <=> IsError(validateField(WithoutCustomMessage(field), value))

C9_Witness ==
    /\ Called
    /\ CustomMessageSet
    /\ field.validation.pattern = LiteralPattern
    /\ value = Str(<<"1">>)
    /\ result = Error("pattern", "Custom")


(***************************************************************************)
(* Rendering sessions.  A schema is rendered, the user edits the controls  *)
(* and submits.  The schemas are the scenarios of the documentation and    *)
(* small forms that exercise each kind of control.                         *)
(***************************************************************************)
\* The undefined a payload entry can hold.
Undefined == [kind |-> "undefined", b |-> FALSE, s |-> << >>]

NoValidation ==
    [minLength |-> Absent, maxLength |-> Absent, min |-> Absent, max |-> Absent,
     pattern |-> "", customMessage |-> ""]

MkField(id, type, label, required, options, validation) ==
    [id |-> id, type |-> type, label |-> label, required |-> required,
     options |-> options, validation |-> validation]

\* The submit button of a form; its required flag is whatever the schema says.
SubmitButton(required) ==
    MkField("submit", "submit-button", "Submit", required, << >>, NoValidation)

\* A required select and a submit button.
SelectSchema ==
    <<MkField("country", "select", "Country", TRUE, <<"X", "Y">>, NoValidation),
      SubmitButton(FALSE)>>

\* An optional checkbox and a submit button flagged required.
CheckboxSchema ==
    <<MkField("agree", "checkbox", "Agree", FALSE, << >>, NoValidation),
      SubmitButton(TRUE)>>

\* A required e-mail with the e-mail preset and a number with both bounds.
ContactSchema ==
    <<MkField("email", "email", "Email", TRUE, << >>,
              [NoValidation EXCEPT !.pattern = EmailPattern]),
      MkField("age", "number", "Age", FALSE, << >>,
              [NoValidation EXCEPT !.min = Some(0), !.max = Some(5)]),
      SubmitButton(FALSE)>>

\* A textarea with both length bounds and radio groups of two and of one
\* option.
SurveySchema ==
    <<MkField("bio", "textarea", "Bio", FALSE, << >>,
              [NoValidation EXCEPT !.minLength = Some(2), !.maxLength = Some(5)]),
      MkField("plan", "radio", "Plan", FALSE, <<"X", "Y">>, NoValidation),
      MkField("only", "radio", "Only", FALSE, <<"X">>, NoValidation),
      SubmitButton(FALSE)>>

\* A required field of a type of FIELD_TYPES that no renderer draws, next to
\* an optional text field.
RatingSchema ==
    <<MkField("stars", "rating", "Stars", TRUE, << >>, NoValidation),
      MkField("name", "text", "Name", FALSE, << >>, NoValidation),
      SubmitButton(FALSE)>>

\* A text field whose pattern is no regular expression.
BrokenPatternSchema ==
    <<MkField("code", "text", "Code", FALSE, << >>,
              [NoValidation EXCEPT !.pattern = InvalidPattern]),
      SubmitButton(FALSE)>>

\* A required text field, and a text field with a minimum length whose
\* pattern is no regular expression.
GuardedPatternSchema ==
    <<MkField("name", "text", "Name", TRUE, << >>, NoValidation),
      MkField("code", "text", "Code", FALSE, << >>,
              [NoValidation EXCEPT !.minLength = Some(2), !.pattern = InvalidPattern]),
      SubmitButton(FALSE)>>

\* A required checkbox with a pattern, as the properties panel of the
\* builder lets one be made.
ConsentSchema ==
    <<MkField("consent", "checkbox", "Consent", TRUE, << >>,
              [NoValidation EXCEPT !.pattern = CheckedPattern]),
      SubmitButton(FALSE)>>

Schemas ==
    {SelectSchema, CheckboxSchema, ContactSchema, SurveySchema, RatingSchema,
     BrokenPatternSchema, GuardedPatternSchema, ConsentSchema}

\* The types the preview draws a control for.
PreviewTypes ==
    {"text", "email", "number", "phone", "url", "textarea", "select", "checkbox",
     "radio", "submit-button"}

\* The types FormRenderer draws a control for.
RendererTypes == PreviewTypes \cup {"date"}

\* What the user can type into a text control, and into a number control
\* (which holds the empty string or a number).
TypedStrings ==
    {<< >>, <<" ">>, <<"a">>, <<"a", "@", "b">>, <<"a", "@", "b", ".", "c", "o", "m">>,
     <<"a", "a", "a", "a", "a", "a">>}

TypedNumbers == {<< >>, <<"5">>, <<"1", "1">>, <<"-", "1">>}

OptionValues(f) == {Str(<<f.options[i]>>) : i \in DOMAIN f.options}

\* The states of the control drawn for a field: the text of an input, the
\* checked flag of a checkbox, the selected option of a radio group (Null
\* while none is selected).  Null as well where no control is drawn.
ControlStates(f, drawn) ==
    CASE f.type \notin drawn \/ f.type = "submit-button" -> {Null}
      [] f.type = "checkbox" -> {Bool(FALSE), Bool(TRUE)}
      [] f.type = "radio" -> {Null} \cup OptionValues(f)
      [] f.type = "select" -> {Str(<< >>)} \cup OptionValues(f)
      [] f.type = "number" -> {Str(s) : s \in TypedNumbers}
      [] OTHER -> {Str(s) : s \in TypedStrings}

\* The state of a control when the form is first drawn.
InitialControl(f, drawn) ==
    CASE f.type \notin drawn \/ f.type = "submit-button" -> Null
      [] f.type = "checkbox" -> Bool(FALSE)
      [] f.type = "radio" -> Null
      [] OTHER -> Str(<< >>)

Ids(fs) == {fs[i].id : i \in DOMAIN fs}

InitialControls(fs, drawn) ==
    [id \in Ids(fs) |-> InitialControl(CHOOSE f \in {fs[i] : i \in DOMAIN fs} : f.id = id, drawn)]

\* The validateField variables while a session runs.
NoCall ==
    /\ field = << >>
    /\ value = Null
    /\ result = NotCalled

(***************************************************************************)
(* FormPreviewModal: handleInputChange and handleSubmit.                   *)
(***************************************************************************)
\* formData.get(field.id): the text of the named control, "on" for a checked
\* checkbox, the selected option of a radio group, and null where the form
\* holds no successful control of that name.
FormDataGet(f, c) ==
    CASE f.type \notin PreviewTypes -> Null
      [] f.type = "checkbox" -> IF c.b THEN Str(<<"o", "n">>) ELSE Null
      [] OTHER -> c

\* The value an onChange handler passes on: e.target.checked for a checkbox,
\* e.target.value for the rest.
ChangeValue(f, c) == c

\* {...prev, [fieldId]: error || ''}
ErrorsOverwritingAll(prev, id, r) == (id :> r.msg)

ErrorsAfterChange(prev, id, r) == (id :> r.msg) @@ prev

\* if (field.type === 'submit-button') return
IsActionFieldNever(f) == FALSE

IsActionField(f) == f.type = "submit-button"

\* if (error): the error is null or a message
IsErrorNever(r) == FALSE

IsErrorSet(r) == r.msg # ""

\* The state of the loop of handleSubmit: newErrors, data, the ids passed to
\* validateField, and whether validateField threw.
LoopStart == [newErrors |-> << >>, data |-> << >>, validated |-> {}, thrown |-> FALSE]

\* fields.forEach(field => ...) of handleSubmit, from field i on
RECURSIVE SubmitLoop(_, _, _, _)
SubmitLoop(fs, ctl, i, acc) ==
    IF i > Len(fs) \/ acc.thrown
    THEN acc
    ELSE LET f == fs[i]
             v == FormDataGet(f, ctl[f.id])
             r == validateField(f, v)
         IN IF IsActionField(f)
            THEN SubmitLoop(fs, ctl, i + 1, acc)
            ELSE IF r = Thrown
            THEN [acc EXCEPT !.thrown = TRUE, !.validated = @ \cup {f.id}]
            ELSE SubmitLoop(fs, ctl, i + 1,
                     [newErrors |-> IF IsErrorSet(r) THEN (f.id :> r.msg) @@ acc.newErrors
                                    ELSE acc.newErrors,
                      data |-> (f.id :> v) @@ acc.data,
                      validated |-> acc.validated \cup {f.id},
                      thrown |-> FALSE])

\* Object.keys(newErrors).length === 0
NoErrorsAlways(newErrors) == TRUE

NoErrors(newErrors) == DOMAIN newErrors = {}

\* setErrors(newErrors)
ErrorsMerged(prev, newErrors) == newErrors @@ prev

ErrorsAfterSubmit(prev, newErrors) == newErrors

\* The types the rendering component draws a control for.
Drawn == IF component = "preview" THEN PreviewTypes ELSE RendererTypes

\* The user edits the control of field i to c: the control changes and its
\* onChange runs handleInputChange(field.id, value).  A throw of
\* validateField leaves the errors as they were.
handleInputChange(i, c) ==
    LET f == schema[i]
        r == validateField(f, ChangeValue(f, c))
    IN /\ component = "preview"
       /\ ~IsActionField(f)
       /\ c \in ControlStates(f, PreviewTypes) \ {Null, controls[f.id]}
       /\ controls' = [controls EXCEPT ![f.id] = c]
       /\ errors' = IF r = Thrown THEN errors ELSE ErrorsAfterChange(errors, f.id, r)
       /\ lastEvent' = Event("change", f.id, IF r = Thrown THEN "throw" ELSE "done",
                             0, {f.id}, << >>)
       /\ UNCHANGED <<component, schema, rendered, validateVars, builderVars, exportVars>>

\* The form is submitted: handleSubmit(e).
handleSubmit ==
    LET acc == SubmitLoop(schema, controls, 1, LoopStart)
    IN /\ component = "preview"
       /\ errors' = IF acc.thrown THEN errors ELSE ErrorsAfterSubmit(errors, acc.newErrors)
       /\ lastEvent' =
            IF acc.thrown
            THEN Event("submit", "", "throw", 0, acc.validated, << >>)
            ELSE IF NoErrors(acc.newErrors)
            THEN Event("submit", "", "success", 1, acc.validated, acc.data)
            ELSE Event("submit", "", "failure", 0, acc.validated, << >>)
       /\ UNCHANGED <<component, schema, controls, rendered, validateVars, builderVars, exportVars>>

(***************************************************************************)
(* FormRenderer: the controls carry no onChange handler, and handleSubmit  *)
(* reads them and calls onSubmit.                                          *)
(***************************************************************************)
\* formElements.namedItem(field.id): an element for a single control of that
\* name, a RadioNodeList for several, null for none.
namedItem(f) ==
    CASE f.type \notin RendererTypes -> "null"
      [] f.type = "radio" -> IF Len(f.options) = 0 THEN "null"
                             ELSE IF Len(f.options) = 1 THEN "element" ELSE "list"
      [] OTHER -> "element"

\* element.value: the text of an input, textarea or select; the value
\* attribute of a radio input; "on" for a checkbox, which has no value
\* attribute, whether or not it is checked.
ElementValue(f, c) ==
    CASE f.type = "checkbox" -> Str(<<"o", "n">>)
      [] f.type = "radio" -> Str(<<f.options[1]>>)
      [] OTHER -> c

\* The entry handleSubmit stores for a field, in the order of its branches:
\* an element wins over the checkbox and radio branches, so the checkbox
\* branch is left for a name that is no single element, where .checked is
\* undefined.  stored is FALSE where no branch assigns.
Collected(f, c) ==
    IF namedItem(f) = "element"
    THEN [stored |-> TRUE, v |-> ElementValue(f, c)]
    ELSE IF f.type = "checkbox"
    THEN [stored |-> TRUE, v |-> Undefined]
    ELSE IF f.type = "radio"
    THEN [stored |-> TRUE, v |-> IF c = Null THEN Undefined ELSE c]
    ELSE [stored |-> FALSE, v |-> Undefined]

\* fields.forEach(field => ...) of FormRenderer.handleSubmit, from field i on
RECURSIVE CollectLoop(_, _, _, _)
CollectLoop(fs, ctl, i, data) ==
    IF i > Len(fs)
    THEN data
    ELSE LET f == fs[i]
             e == Collected(f, ctl[f.id])
         IN IF IsActionField(f) \/ ~e.stored
            THEN CollectLoop(fs, ctl, i + 1, data)
            ELSE CollectLoop(fs, ctl, i + 1, (f.id :> e.v) @@ data)

\* The user edits the control of field i to c.
EditControl(i, c) ==
    LET f == schema[i]
    IN /\ component = "renderer"
       /\ c \in ControlStates(f, RendererTypes) \ {Null, controls[f.id]}
       /\ controls' = [controls EXCEPT ![f.id] = c]
       /\ lastEvent' = Event("edit", f.id, "done", 0, {}, << >>)
       /\ UNCHANGED <<component, schema, errors, rendered, validateVars, builderVars, exportVars>>

\* The form is submitted: FormRenderer.handleSubmit(e), with formRef set.
RendererSubmit ==
    /\ component = "renderer"
    /\ lastEvent' = Event("submit", "", "success", 1, {},
                          CollectLoop(schema, controls, 1, << >>))
    /\ UNCHANGED <<component, schema, controls, errors, rendered, validateVars, builderVars, exportVars>>

(***************************************************************************)
(* The sessions: a schema is rendered by one of the components, and the    *)
(* user edits and submits in any order.                                    *)
(***************************************************************************)
InitSession ==
    /\ NoCall
    /\ NoBuilder
    /\ NoExport
    /\ component \in {"preview", "renderer"}
    /\ schema \in Schemas
    /\ controls = InitialControls(schema, Drawn)
    /\ errors = << >>
    /\ lastEvent = NoEvent
    /\ rendered = << >>

Change == \E i \in DOMAIN schema : \E c \in ControlStates(schema[i], PreviewTypes) :
              handleInputChange(i, c)

Edit == \E i \in DOMAIN schema : \E c \in ControlStates(schema[i], RendererTypes) :
            EditControl(i, c)

NextSession ==
    \/ Change
    \/ handleSubmit
    \/ Edit
    \/ RendererSubmit

SpecSession == InitSession /\ [][NextSession]_vars

(***************************************************************************)
(* Vocabulary of the session properties.                                   *)
(***************************************************************************)
InPreview == component = "preview"

InRenderer == component = "renderer"

AfterSubmit == lastEvent.kind = "submit"

\* The indices of the non-action fields of the schema.
NonAction == {i \in DOMAIN schema : schema[i].type # "submit-button"}

\* What validation says, at submit, about the field at index i in the
\* current state of the controls.
FieldResult(i) == validateField(schema[i], FormDataGet(schema[i], controls[schema[i].id]))

FailingFields == {i \in NonAction : IsError(FieldResult(i))}

\* Validation of every field completes: no pattern fails to compile.
ValidationCompletes == \A i \in NonAction : FieldResult(i) # Thrown

AllFieldsPass == \A i \in NonAction : FieldResult(i) = Valid

C12_SubmitSuccess ==
    (AfterSubmit /\ AllFieldsPass) =>
        /\ lastEvent.outcome = "success"
        /\ lastEvent.calls = 1
        /\ errors = << >>
        /\ InPreview =>
            /\ DOMAIN lastEvent.data = {schema[i].id : i \in NonAction}
            /\ \A i \in NonAction :
                 lastEvent.data[schema[i].id] = FormDataGet(schema[i], controls[schema[i].id])

C12_Witness ==
    /\ InPreview
    /\ AfterSubmit
    /\ schema = ContactSchema
    /\ controls["email"] = Str(<<"a", "@", "b", ".", "c", "o", "m">>)
    /\ controls["age"] = Str(<<"5">>)
    /\ lastEvent.calls = 1
    /\ errors = << >>

(***************************************************************************)
(* C13. Payload values: in the mapping handed to the submit callback,      *)
(* every checkbox field maps to the boolean of its checked state, a radio  *)
(* group with nothing selected maps to undefined or to no entry, and every *)
(* other drawn field maps to a string.                                     *)
(***************************************************************************)
Payload == lastEvent.data

CallbackInvoked == AfterSubmit /\ lastEvent.calls = 1

C13_PayloadValues ==
    CallbackInvoked =>
        \A i \in NonAction :
            LET f == schema[i]
                c == controls[f.id]
                has == f.id \in DOMAIN Payload
            IN CASE f.type \notin Drawn -> TRUE
                 [] f.type = "checkbox" -> has /\ Payload[f.id] = c
                 [] f.type = "radio" /\ c = Null -> has => Payload[f.id] = Undefined
                 [] OTHER -> has /\ Payload[f.id].kind = "str"

(***************************************************************************)
(* C14. Action fields are inert: in every state of a session, no           *)
(* submit-button was among the fields the last event passed to             *)
(* validateField, no submit-button has an entry in the error mapping, and  *)
(* the keys of the payload are ids of non-action fields, whatever the      *)
(* required flag of the button.                                            *)
(***************************************************************************)
ActionIds == {schema[i].id : i \in DOMAIN schema \ NonAction}

C14_ActionFieldsInert ==
    /\ lastEvent.validated \cap ActionIds = {}
    /\ DOMAIN errors \cap ActionIds = {}
    /\ DOMAIN Payload \subseteq {schema[i].id : i \in NonAction}

\* A form whose submit button is flagged required has been submitted.
C14_Witness ==
    /\ InPreview
    /\ schema = CheckboxSchema
    /\ schema[2].type = "submit-button" /\ schema[2].required
    /\ CallbackInvoked
    /\ lastEvent.validated = {"agree"}
    /\ DOMAIN Payload = {"agree"}

(***************************************************************************)
(* C15. onChange touches one entry only: in every step that handles a      *)
(* change of field id with a value on which validateField returns, the     *)
(* entry of id afterwards is the message validateField returns for the new *)
(* value (the empty message, which shows nothing, when the value is        *)
(* valid), and every other entry of the error mapping is what it was.      *)
(***************************************************************************)
FieldWithId(id) == CHOOSE f \in {schema[i] : i \in DOMAIN schema} : f.id = id

C15_ChangeTouchesOneEntry ==
    [][Change =>
        LET id == lastEvent'.id
            r == validateField(FieldWithId(id), controls'[id])
        IN r # Thrown =>
            /\ DOMAIN errors' = DOMAIN errors \cup {id}
            /\ errors'[id] = r.msg
            /\ \A k \in DOMAIN errors \ {id} : errors'[k] = errors[k]]_vars

\* A change of age was handled while email kept its message.
C15_Witness ==
    /\ InPreview
    /\ schema = ContactSchema
    /\ lastEvent.kind = "change" /\ lastEvent.id = "age"
    /\ controls["age"] = Str(<<"1", "1">>)
    /\ errors = ("age" :> "Age must be no more than 5") @@ ("email" :> "Email format is invalid")

(***************************************************************************)
(* C16. An unrecognized type degrades locally: after a submit at which     *)
(* every field of a type the component draws holds a valid value, the      *)
(* submit has succeeded and no field of an undrawn type has an entry in    *)
(* the error mapping, whatever the required flag of that field.            *)
(***************************************************************************)
Undrawn == {i \in NonAction : schema[i].type \notin Drawn}

DrawnFieldsPass == \A i \in NonAction \ Undrawn : FieldResult(i) = Valid

C16_UnsupportedTypeDegradesLocally ==
    (AfterSubmit /\ DrawnFieldsPass) =>
        /\ lastEvent.outcome = "success"
        /\ \A i \in Undrawn : schema[i].id \notin DOMAIN errors

(***************************************************************************)
(* FormBuilder.  A builder field is kept with the members the handlers     *)
(* read or write: id, type, label and required.                            *)
(***************************************************************************)
BuilderField(id, type, label, required) ==
    [id |-> id, type |-> type, label |-> label, required |-> required]

\* The submit button getInitialFields appends.
defaultSubmitButton == BuilderField("default-submit-button", "submit-button", "Submit", FALSE)

\* The fields a host passes as initialFields.
TextA == BuilderField("a", "text", "Name", FALSE)

SubmitS == BuilderField("s", "submit-button", "Send", FALSE)

\* A text field whose id is the one getInitialFields gives its button.
TextD == BuilderField("default-submit-button", "text", "Note", FALSE)

\* Lists of fields with distinct ids and at most one submit button.
InitialFieldLists ==
    {<< >>, <<TextA>>, <<SubmitS>>, <<TextA, SubmitS>>, <<SubmitS, TextA>>, <<TextD>>}

\* The types the add-field panel is used with here (two of FIELD_TYPES).
AddableTypes == {"text", "submit-button"}

\* The ids generateFieldId returns, in the order it returns them.
FreshIds == <<"field_1", "field_2">>

\* The number of events (handler calls and prop changes) of a builder run.
MaxEvents == 3

IsSubmitButton(f) == f.type = "submit-button"

\* fields.some(field => field.type === 'submit-button')
HasSubmitButton(fs) == \E i \in DOMAIN fs : IsSubmitButton(fs[i])

\* fields.filter(field => field.type === 'submit-button').length
SubmitButtons(fs) == Cardinality({i \in DOMAIN fs : IsSubmitButton(fs[i])})

getInitialFields(init) ==
    IF HasSubmitButton(init) THEN init ELSE Append(init, defaultSubmitButton)

\* type.charAt(0).toUpperCase() + type.slice(1)
Capitalized(type) == IF type = "text" THEN "Text" ELSE "Submit-button"

\* The field addField builds for a type.
NewField(type, id) ==
    IF type = "submit-button"
    THEN BuilderField(id, type, "Submit", FALSE)
    ELSE BuilderField(id, type, "New " \o Capitalized(type) \o " Field", FALSE)

\* prev.find(field => field.id === fieldId): the first field with the id
Find(fs, id) ==
    IF \E i \in DOMAIN fs : fs[i].id = id
    THEN fs[CHOOSE i \in DOMAIN fs : fs[i].id = id /\ \A j \in 1..(i - 1) : fs[j].id # id]
    ELSE Null

\* prev.filter(field => field.id !== fieldId)
RECURSIVE WithoutId(_, _)
WithoutId(fs, id) ==
    IF fs = << >> THEN << >>
    ELSE IF Head(fs).id = id THEN WithoutId(Tail(fs), id)
    ELSE <<Head(fs)>> \o WithoutId(Tail(fs), id)

\* The guard of the updater of removeField: the field found is the last
\* submit button.
RemovalRefused(prev, id) ==
    LET fieldToRemove == Find(prev, id)
    IN fieldToRemove # Null /\ IsSubmitButton(fieldToRemove) /\ SubmitButtons(prev) = 1

\* A mutation of Merge: { ...updates, ...field }, the field's own members win.
MergeFieldWins(f, updates) == f

\* { ...field, ...updates }
Merge(f, updates) ==
    [k \in DOMAIN f |-> IF k \in DOMAIN updates THEN updates[k] ELSE f[k]]

\* The updates the properties panel issues for the members kept here.
PanelUpdates == {[required |-> TRUE], [required |-> FALSE], [label |-> "Renamed"]}

\* items.splice(source, 1) followed by items.splice(destination, 0, item)
Reorder(fs, src, dst) ==
    LET rest == [k \in 1..(Len(fs) - 1) |-> IF k < src THEN fs[k] ELSE fs[k + 1]]
    IN [k \in 1..Len(fs) |->
            IF k < dst THEN rest[k] ELSE IF k = dst THEN fs[src] ELSE rest[k - 1]]

\* The builder is mounted with some initialFields; the first effect has run.
InitBuilder ==
    /\ NoCall
    /\ NoExport
    /\ component = "builder"
    /\ schema = << >>
    /\ controls = << >>
    /\ errors = << >>
    /\ lastEvent = NoEvent
    /\ rendered = << >>
    /\ events = 0
    /\ initialFields \in InitialFieldLists
    /\ fields = getInitialFields(initialFields)
    /\ selectedField = Null
    /\ captured = fields
    /\ pending = << >>
    /\ notified = << >>
    /\ idsGenerated = 0

\* setTimeout(() => onFieldsChange?.(newFields), 0)
Schedule(newFields) == pending' = Append(pending, newFields)

\* addField(type), called by the add-field panel.  The guard reads the
\* field list the callback captured; the updater appends to the current one.
addField(type) ==
    IF type = "submit-button" /\ HasSubmitButton(captured)
    THEN UNCHANGED <<fields, selectedField, pending, idsGenerated>>
    ELSE LET newField == NewField(type, FreshIds[idsGenerated + 1])
         IN /\ idsGenerated < Len(FreshIds)
            /\ fields' = Append(fields, newField)
            /\ Schedule(fields')
            /\ selectedField' = newField
            /\ idsGenerated' = idsGenerated + 1

\* updateField(selectedField.id, updates), called by the properties panel
updateField(updates) ==
    /\ selectedField # Null
    /\ fields' = [i \in DOMAIN fields |->
                    IF fields[i].id = selectedField.id THEN Merge(fields[i], updates)
                    ELSE fields[i]]
    /\ Schedule(fields')
    /\ selectedField' = Merge(selectedField, updates)
    /\ UNCHANGED idsGenerated

\* removeField(fieldId), called by the trash button of a listed field and by
\* the delete button of the properties panel
removeField(fieldId) ==
    /\ \/ \E i \in DOMAIN captured : captured[i].id = fieldId
       \/ /\ selectedField # Null
          /\ selectedField.id = fieldId
          /\ ~(IsSubmitButton(selectedField) /\ SubmitButtons(captured) = 1)
    /\ IF RemovalRefused(fields, fieldId)
       THEN UNCHANGED <<fields, pending>>
       ELSE /\ fields' = WithoutId(fields, fieldId)
            /\ Schedule(fields')
    /\ selectedField' = IF selectedField # Null /\ selectedField.id = fieldId
                        THEN Null ELSE selectedField
    /\ UNCHANGED idsGenerated

\* handleDragEnd(result): the reorder is computed from the captured list.
handleDragEnd(src, dst, hasDestination) ==
    /\ src \in DOMAIN captured
    /\ dst \in DOMAIN captured
    /\ IF ~hasDestination
       THEN UNCHANGED <<fields, pending>>
       ELSE /\ fields' = Reorder(captured, src, dst)
            /\ Schedule(fields')
    /\ UNCHANGED <<selectedField, idsGenerated>>

\* onClick={() => setSelectedField(field)} of a listed field
SelectField(i) ==
    /\ i \in DOMAIN captured
    /\ selectedField' = captured[i]
    /\ UNCHANGED <<fields, pending, idsGenerated>>

\* A handler of the last render runs: it leaves the props, the captured
\* list and the host alone.
Handled(handler) ==
    /\ events < MaxEvents
    /\ events' = events + 1
    /\ handler
    /\ UNCHANGED <<initialFields, captured, notified>>
    /\ UNCHANGED <<validateVars, sessionVars, exportVars>>

AddField == \E type \in AddableTypes : Handled(addField(type))

UpdateField == \E updates \in PanelUpdates : Handled(updateField(updates))

RemoveField ==
    \/ \E i \in DOMAIN captured : Handled(removeField(captured[i].id))
    \/ selectedField # Null /\ Handled(removeField(selectedField.id))

DragEnd ==
    \E src, dst \in DOMAIN captured : \E d \in BOOLEAN : Handled(handleDragEnd(src, dst, d))

Select == \E i \in DOMAIN captured : Handled(SelectField(i))

\* React renders with the committed state: the callbacks capture it.
Render ==
    /\ captured # fields
    /\ captured' = fields
    /\ UNCHANGED <<initialFields, fields, selectedField, pending, notified, idsGenerated, events>>
    /\ UNCHANGED <<validateVars, sessionVars, exportVars>>

\* The oldest timer fires: onFieldsChange(newFields).
Notify ==
    /\ pending # << >>
    /\ notified' = Head(pending)
    /\ pending' = Tail(pending)
    /\ UNCHANGED <<initialFields, fields, selectedField, captured, idsGenerated, events>>
    /\ UNCHANGED <<validateVars, sessionVars, exportVars>>

\* The host passes other initialFields: the effect resets the field list
\* and calls onFieldsChange with it.
InitialFieldsChange ==
    /\ events < MaxEvents
    /\ events' = events + 1
    /\ \E init \in InitialFieldLists \ {initialFields} : initialFields' = init
    /\ fields' = getInitialFields(initialFields')
    /\ captured' = fields'
    /\ notified' = fields'
    /\ UNCHANGED <<selectedField, pending, idsGenerated>>
    /\ UNCHANGED <<validateVars, sessionVars, exportVars>>

NextBuilder ==
    \/ AddField
    \/ UpdateField
    \/ RemoveField
    \/ DragEnd
    \/ Select
    \/ Render
    \/ Notify
    \/ InitialFieldsChange

SpecBuilder == InitBuilder /\ [][NextBuilder]_vars

(***************************************************************************)
(* C17. Exactly one submit action: in every state of the builder reached   *)
(* from initialFields with at most one submit-button, the field list holds *)
(* exactly one field of type submit-button.                                *)
(***************************************************************************)
InBuilder == component = "builder"

C17_ExactlyOneSubmitButton == InBuilder => SubmitButtons(fields) = 1

(***************************************************************************)
(* C18. FormRenderer enforces the validation rules: whenever onSubmit has  *)
(* been called, no number field of the payload fails the min or max check  *)
(* and no textarea field of the payload fails the minLength or maxLength   *)
(* check of its validation.                                                *)
(***************************************************************************)
BoundChecks == {"minLength", "maxLength", "min", "max"}

C18_RendererEnforcesBounds ==
    (InRenderer /\ CallbackInvoked) =>
        \A i \in NonAction :
            (schema[i].type \in {"number", "textarea"} /\ schema[i].id \in DOMAIN Payload) =>
                validateField(schema[i], Payload[schema[i].id]).kind \notin BoundChecks

(***************************************************************************)
(* C19. Session state machine of the preview, for a schema whose patterns  *)
(* are regular expressions.  The phase of a session is read off its last   *)
(* event: Pristine before any event, Editing after a change or a failed    *)
(* submit, SubmittedClean after a successful submit.  In every state the   *)
(* phase is one of these three; a Pristine session has no errors; after a  *)
(* submit the session is SubmittedClean with the callback run once and no  *)
(* errors exactly when every field passes, and otherwise Editing with the  *)
(* callback not run and at least one message in the error mapping.  Every  *)
(* step is one whole event: a change, which leads to Editing, or a submit, *)
(* which leaves the controls as they are and leads to SubmittedClean or    *)
(* Editing; no step leads back to Pristine.                                *)
(***************************************************************************)
PatternsCompile ==
    \A i \in DOMAIN schema :
        schema[i].validation.pattern = "" \/ ~RegExp(schema[i].validation.pattern).throws

Phase ==
    CASE lastEvent.kind = "none" -> "Pristine"
      [] lastEvent.kind = "change" -> "Editing"
      [] lastEvent.kind = "submit" /\ lastEvent.outcome = "success" -> "SubmittedClean"
      [] lastEvent.kind = "submit" /\ lastEvent.outcome = "failure" -> "Editing"
      [] OTHER -> "Undecided"

\* The ids whose entry of the error mapping shows a message.
ErrorsShown == {id \in DOMAIN errors : errors[id] # ""}

PhaseConsistent ==
    /\ Phase \in {"Pristine", "Editing", "SubmittedClean"}
    /\ Phase = "Pristine" => errors = << >>
    /\ AfterSubmit =>
         IF AllFieldsPass
         THEN Phase = "SubmittedClean" /\ lastEvent.calls = 1 /\ errors = << >>
         ELSE Phase = "Editing" /\ lastEvent.calls = 0 /\ ErrorsShown # {}

WholeEvent ==
    /\ lastEvent'.kind \in {"change", "submit"}
    /\ lastEvent'.kind = "change" => Phase' = "Editing"
    /\ lastEvent'.kind = "submit" =>
         /\ controls' = controls
         /\ Phase' \in {"SubmittedClean", "Editing"}

C19_SessionStateMachine ==
    /\ []((InPreview /\ PatternsCompile) => PhaseConsistent)
    /\ [][(InPreview /\ PatternsCompile) => WholeEvent]_vars

\* A submit after editing has failed and the session is Editing again.
C19_Witness ==
    /\ InPreview
    /\ schema = ContactSchema
    /\ AfterSubmit
    /\ Phase = "Editing"
    /\ controls["email"] = Str(<<"a", "@", "b">>)
    /\ errors = ("email" :> "Email format is invalid")

(***************************************************************************)
(* Export of a schema.  An object is a function from its own keys to       *)
(* values; a value is undefined, null, NaN, a number, a boolean or a       *)
(* string.  The properties panel of the builder edits the validation and   *)
(* styling members of the fields; the schema is then written as JSON and   *)
(* read back by the host of FormRenderer.                                  *)
(***************************************************************************)
NaN == [kind |-> "NaN"]

NumberValue(n) == [kind |-> "number", n |-> n]

StringValue(str) == [kind |-> "string", str |-> str]

BooleanValue(b) == [kind |-> "boolean", b |-> b]

\* The numbers and strings the members of the exported schemas hold.
Numbers == {0, 2, 6}

Strings == {"Form", "a", "n", "text", "number", "Name", "Age"}

\* What the user types into a number input of the panel: nothing, 2, and .5
NumberTexts == {<< >>, <<"2">>, <<".", "5">>}

\* parseInt: leading white space and a sign are skipped and the longest
\* prefix of digits is read; NaN when there is none.
parseInt(str) ==
    LET t == TrimStart(str)
        signed == t # << >> /\ Head(t) \in {"-", "+"}
        u == IF signed THEN Tail(t) ELSE t
        ip == ReadDigits(u, 0, 0)
    IN IF ip[2] = 0 THEN NaN
       ELSE NumberValue(IF signed /\ Head(t) = "-" THEN 0 - ip[1] ELSE ip[1])

\* The fields as addField leaves them (styling.borderRadius stands for the
\* styling members).
DraftField(id, type, label) ==
    [id |-> StringValue(id), type |-> StringValue(type), label |-> StringValue(label),
     required |-> BooleanValue(FALSE), styling |-> [borderRadius |-> NumberValue(6)]]

DraftSchema ==
    [formName |-> StringValue("Form"),
     formFields |-> <<DraftField("a", "text", "Name"), DraftField("n", "number", "Age")>>]

\* The numeric validation members the panel offers for a type.
NumericMembers(type) ==
    IF type \in TextLike THEN {"minLength", "maxLength"}
    ELSE IF type = "number" THEN {"min", "max"}
    ELSE {}

\* o.k, and o.k for an object-valued member read with ?.
Get(o, k) == IF k \in DOMAIN o THEN o[k] ELSE Undefined

Sub(o, k) == IF k \in DOMAIN o THEN o[k] ELSE << >>

\* { ...o, [k]: v }
With(o, k, v) == (k :> v) @@ o

\* JSON.stringify: a member whose value is undefined is left out, NaN is
\* written as null, a number in decimal, a string in quotes.
Quote(str) == "\"" \o str \o "\""

stringifyValue(v) ==
    CASE v.kind = "number" -> ToString(v.n)
      [] v.kind = "NaN" -> "null"
      [] v.kind = "null" -> "null"
      [] v.kind = "boolean" -> (IF v.b THEN "true" ELSE "false")
      [] v.kind = "string" -> Quote(v.str)

Written(o) == {k \in DOMAIN o : o[k] # Undefined}

ObjectMembers == {"validation", "styling"}

stringifyMembers(o) == [k \in Written(o) |-> stringifyValue(o[k])]

stringifyField(f) ==
    [k \in Written(f) |-> IF k \in ObjectMembers THEN stringifyMembers(f[k])
                          ELSE stringifyValue(f[k])]

stringify(s) ==
    [formName |-> stringifyValue(s.formName),
     formFields |-> [i \in DOMAIN s.formFields |-> stringifyField(s.formFields[i])]]

\* JSON.parse
parseValue(text) ==
    IF text = "null" THEN Null
    ELSE IF text \in {"true", "false"} THEN BooleanValue(text = "true")
    ELSE IF \E n \in Numbers : ToString(n) = text
    THEN NumberValue(CHOOSE n \in Numbers : ToString(n) = text)
    ELSE StringValue(CHOOSE str \in Strings : Quote(str) = text)

parseMembers(o) == [k \in DOMAIN o |-> parseValue(o[k])]

parseField(f) ==
    [k \in DOMAIN f |-> IF k \in ObjectMembers THEN parseMembers(f[k]) ELSE parseValue(f[k])]

parse(j) ==
    [formName |-> parseValue(j.formName),
     formFields |-> [i \in DOMAIN j.formFields |-> parseField(j.formFields[i])]]

\* The panel edits field i of the draft; a JSON text written earlier is stale.
EditMember(i, member, k, v) ==
    /\ i \in DOMAIN draft.formFields
    /\ draft' = [draft EXCEPT !.formFields[i] = With(@, member, With(Sub(@, member), k, v))]
    /\ json' = << >>
    /\ parsed' = << >>
    /\ UNCHANGED <<validateVars, sessionVars, builderVars>>

\* minLength: e.target.value ? parseInt(e.target.value) : undefined
\* (likewise maxLength, min and max)
EditNumber ==
    \E i \in DOMAIN draft.formFields : \E text \in NumberTexts :
        \E k \in NumericMembers(draft.formFields[i].type.str) :
            EditMember(i, "validation", k, IF text # << >> THEN parseInt(text) ELSE Undefined)

\* pattern: e.target.value || undefined
EditPattern ==
    \E i \in DOMAIN draft.formFields : \E str \in {"", "a"} :
        EditMember(i, "validation", "pattern", IF str # "" THEN StringValue(str) ELSE Undefined)

\* borderRadius: parseInt(e.target.value) || 0
EditBorderRadius ==
    \E i \in DOMAIN draft.formFields : \E text \in NumberTexts :
        LET n == parseInt(text)
        IN EditMember(i, "styling", "borderRadius",
                      IF n = NaN \/ n.n = 0 THEN NumberValue(0) ELSE n)

\* The schema is written as JSON.
Export ==
    /\ json = << >>
    /\ json' = stringify(draft)
    /\ UNCHANGED <<draft, parsed>>
    /\ UNCHANGED <<validateVars, sessionVars, builderVars>>

\* The JSON text is read back.
Import ==
    /\ json # << >>
    /\ parsed = << >>
    /\ parsed' = parse(json)
    /\ UNCHANGED <<draft, json>>
    /\ UNCHANGED <<validateVars, sessionVars, builderVars>>

InitExport ==
    /\ NoCall
    /\ NoSession
    /\ NoBuilder
    /\ draft = DraftSchema
    /\ json = << >>
    /\ parsed = << >>

NextExport ==
    \/ EditNumber
    \/ EditPattern
    \/ EditBorderRadius
    \/ Export
    \/ Import

SpecExport == InitExport /\ [][NextExport]_vars

(***************************************************************************)
(* C20. Schema round trip: a schema written as JSON and parsed back equals *)
(* the schema that was written, in formName, in the number and order of    *)
(* formFields and in every property of every field, the members of         *)
(* validation and styling included.  Two objects are compared property by  *)
(* property: an absent member and a member holding undefined read the      *)
(* same.                                                                   *)
(***************************************************************************)
SameMembers(a, b) == \A k \in DOMAIN a \cup DOMAIN b : Get(a, k) = Get(b, k)

SameField(f, g) ==
    /\ \A k \in (DOMAIN f \cup DOMAIN g) \ ObjectMembers : Get(f, k) = Get(g, k)
    /\ \A m \in ObjectMembers : SameMembers(Sub(f, m), Sub(g, m))

SameSchema(a, b) ==
    /\ a.formName = b.formName
    /\ Len(a.formFields) = Len(b.formFields)
    /\ \A i \in DOMAIN a.formFields : SameField(a.formFields[i], b.formFields[i])

C20_SchemaRoundTrip == parsed # << >> => SameSchema(parsed, draft)

(***************************************************************************)
(* Rendering of one field: the switch on field.type of the preview and of  *)
(* FormRenderer, and the style object applied to the control.              *)
(***************************************************************************)
\* FIELD_TYPES of the builder, and a type no component knows.
AllTypes ==
    {"text", "email", "textarea", "number", "date", "checkbox", "radio", "select",
     "rating", "file", "phone", "url", "address", "credit-card", "submit-button",
     "unknown"}

\* The element a case of the switch returns.
ControlKind(type) ==
    CASE type \in {"text", "email", "number", "phone", "url", "date"} -> "input"
      [] type = "textarea" -> "textarea"
      [] type = "select" -> "select"
      [] type = "checkbox" -> "checkbox"
      [] type = "radio" -> "radio"
      [] type = "submit-button" -> "button"

\* switch (field.type) of the component: the default case returns the
\* "Unsupported field type" paragraph.
Dispatch(comp, type) ==
    IF type \in (IF comp = "preview" THEN PreviewTypes ELSE RendererTypes)
    THEN ControlKind(type)
    ELSE "placeholder"

\* The elements that get a style object.
Styled == {"input", "textarea", "select", "button"}

\* field.styling?.member || fallback, for a numeric member
OrDefault(member, fallback) == IF Truthy(member) THEN member.v ELSE fallback

\* field.styling?.member || fallback, for a colour
OrDefaultColour(member, fallback) == IF member.set /\ member.v # "" THEN member.v ELSE fallback

\* baseStyle / customStyle, and the style of the submit button (fontSize 16)
AppliedStyle(kind, styling) ==
    [borderRadius |-> OrDefault(styling.borderRadius, 6),
     backgroundColor |-> OrDefaultColour(styling.backgroundColor,
                                         IF kind = "button" THEN "#3b82f6" ELSE "#ffffff"),
     fontSize |-> OrDefault(styling.fontSize, IF kind = "button" THEN 16 ELSE 14),
     padding |-> OrDefault(styling.padding, 12)]

\* What a component draws for a field.
renderField(comp, f) ==
    LET kind == Dispatch(comp, f.type)
    IN [kind |-> kind,
        style |-> IF kind \in Styled THEN AppliedStyle(kind, f.styling) ELSE << >>]

\* The stylings of the rendered fields: a number absent, 0 or 2, a colour
\* absent or red.
Stylings ==
    [borderRadius : {Absent, Some(0), Some(2)},
     backgroundColor : {Absent, Some("#ff0000")},
     fontSize : {Absent, Some(0), Some(2)},
     padding : {Absent}]

StyledField(type, styling) ==
    [id |-> "f1", type |-> type, label |-> "Field", required |-> FALSE,
     options |-> <<"X", "Y">>, validation |-> NoValidation, styling |-> styling]

\* A component is about to draw a schema of one field.
InitRender ==
    /\ NoCall
    /\ NoBuilder
    /\ NoExport
    /\ component \in {"preview", "renderer"}
    /\ \E type \in AllTypes : \E styling \in Stylings : schema = <<StyledField(type, styling)>>
    /\ controls = << >>
    /\ errors = << >>
    /\ lastEvent = NoEvent
    /\ rendered = << >>

\* fields.map(field => ...): the component draws the fields.
RenderForm ==
    /\ rendered = << >>
    /\ rendered' = [id \in Ids(schema) |-> renderField(component, FieldWithId(id))]
    /\ controls' = InitialControls(schema, Drawn)
    /\ UNCHANGED <<component, schema, errors, lastEvent>>
    /\ UNCHANGED <<validateVars, builderVars, exportVars>>

NextRender == RenderForm

SpecRender == InitRender /\ [][NextRender]_vars

(***************************************************************************)
(* C21. Render dispatch is total and type-directed in every renderer:      *)
(* text, email, number, phone, url and date are drawn as an input,         *)
(* textarea as a textarea, select as a select, checkbox as a checkbox,     *)
(* radio as a radio group, submit-button as a button, only a type outside  *)
(* this set as the placeholder; and the preview and FormRenderer draw the  *)
(* same kind of control for every type.                                    *)
(***************************************************************************)
DispatchedTypes ==
    {"text", "email", "number", "phone", "url", "date", "textarea", "select", "checkbox",
     "radio", "submit-button"}

C21_DispatchTotalAndUniform ==
    \A id \in DOMAIN rendered :
        LET type == FieldWithId(id).type
        IN /\ rendered[id].kind =
                (IF type \in DispatchedTypes THEN ControlKind(type) ELSE "placeholder")
           /\ Dispatch("preview", type) = Dispatch("renderer", type)

(***************************************************************************)
(* C22. A pattern that is no regular expression fails only when validation *)
(* reaches the pattern check, i.e. for a non-empty value that passed the   *)
(* required, length and numeric checks.  The event in which that happens   *)
(* yields no message and no successful submission: a submit that hits it   *)
(* runs the success branch zero times and leaves the error mapping as it   *)
(* was before the submit.                                                  *)
(***************************************************************************)
InvalidPatternOf(f) == f.validation.pattern # "" /\ RegExp(f.validation.pattern).throws

PatternCheckReached(f, v) ==
    /\ ~RequiredFails(f, v)
    /\ ~IsEmpty(v)
    /\ ~TooShort(f, v)
    /\ ~TooLong(f, v)
    /\ ~BelowMin(f, v)
    /\ ~AboveMax(f, v)

\* validateField throws exactly for an invalid pattern whose check is reached
ThrowsOnlyAtPatternCheck ==
    InPreview =>
        \A i \in NonAction : \A c \in ControlStates(schema[i], PreviewTypes) :
            LET f == schema[i]
                v == FormDataGet(f, c)
            IN /\ (validateField(f, v) = Thrown)
                    <=> (InvalidPatternOf(f) /\ PatternCheckReached(f, v))
               /\ (validateField(f, c) = Thrown)
                    <=> (InvalidPatternOf(f) /\ PatternCheckReached(f, c))

\* the event that threw called nothing and delivered nothing
ThrowYieldsNothing ==
    (InPreview /\ lastEvent.outcome = "throw") =>
        /\ lastEvent.calls = 0
        /\ lastEvent.data = << >>
        /\ \E i \in NonAction :
              /\ schema[i].id \in lastEvent.validated
              /\ InvalidPatternOf(schema[i])
              /\ PatternCheckReached(schema[i], controls[schema[i].id])

\* a submit in which some field's validation throws
SubmitHitsInvalidPattern ==
    /\ InPreview
    /\ lastEvent'.kind = "submit"
    /\ controls' = controls
    /\ ~ValidationCompletes

\* a change of a control whose validation throws
ChangeHitsInvalidPattern ==
    /\ InPreview
    /\ lastEvent'.kind = "change"
    /\ validateField(FieldWithId(lastEvent'.id), controls'[lastEvent'.id]) = Thrown

ThrowLeavesErrors ==
    (SubmitHitsInvalidPattern \/ ChangeHitsInvalidPattern) =>
        /\ errors' = errors
        /\ lastEvent'.outcome = "throw"
        /\ lastEvent'.calls = 0

C22_InvalidPatternThrows ==
    /\ [](ThrowsOnlyAtPatternCheck /\ ThrowYieldsNothing)
    /\ [][ThrowLeavesErrors]_vars

\* A submit threw while a message of an earlier event was on display, and a
\* field before the throwing one fails.
C22_Witness ==
    /\ InPreview
    /\ lastEvent.kind = "submit"
    /\ lastEvent.outcome = "throw"
    /\ \E id \in DOMAIN errors : errors[id] # ""
    /\ \E i \in NonAction : FieldResult(i) \notin {Valid, Thrown}

(***************************************************************************)
(* C23. Styling fallback: every styling property applied to a control      *)
(* equals the field's own value whenever the field sets one, the value 0   *)
(* included, and equals the fixed default (6, the light-theme colour, 14   *)
(* or 16 for a button, 12) only when the property is absent.               *)
(***************************************************************************)
OwnOrDefault(member, fallback) == IF member.set THEN member.v ELSE fallback

C23_StylingFallback ==
    \A id \in DOMAIN rendered :
        LET f == FieldWithId(id)
            kind == rendered[id].kind
            style == rendered[id].style
        IN kind \in Styled =>
            /\ style.borderRadius = OwnOrDefault(f.styling.borderRadius, 6)
            /\ style.backgroundColor =
                  OwnOrDefault(f.styling.backgroundColor,
                               IF kind = "button" THEN "#3b82f6" ELSE "#ffffff")
            /\ style.fontSize =
                  OwnOrDefault(f.styling.fontSize, IF kind = "button" THEN 16 ELSE 14)
            /\ style.padding = OwnOrDefault(f.styling.padding, 12)

(***************************************************************************)
(* C24. The duplicate guard of addField holds for every interleaving of    *)
(* addField calls and state commits: no call of addField, also one of two  *)
(* calls of addField('submit-button') issued from the same render, leaves  *)
(* the field list with more than one submit-button.                        *)
(***************************************************************************)
C24_DuplicateGuardHolds == [][AddField => SubmitButtons(fields') <= 1]_vars

(***************************************************************************)
(* C25. A refused removal is a no-op: a call of removeField on the only    *)
(* submit-button leaves the field list unchanged, schedules no             *)
(* onFieldsChange notification and leaves the selected field unchanged.    *)
(***************************************************************************)
\* The ids a removeField call can be made with.
RemovableIds ==
    Ids(captured) \cup (IF selectedField = Null THEN {} ELSE {selectedField.id})

\* removeField(id) runs and its updater refuses
RefusedRemoval(id) == RemovalRefused(fields, id) /\ Handled(removeField(id))

C25_RefusedRemovalIsNoOp ==
    [][\A id \in RemovableIds :
          RefusedRemoval(id) =>
              /\ fields' = fields
              /\ pending' = pending
              /\ selectedField' = selectedField]_vars

(***************************************************************************)
(* C26. Selection consistency: in every state of the builder the selected  *)
(* field is null, or it has the id of a field of the field list and equals *)
(* that entry of the list member for member.                               *)
(***************************************************************************)
C26_SelectionConsistent ==
    InBuilder => (selectedField = Null \/ selectedField = Find(fields, selectedField.id))

(***************************************************************************)
(* C27. Drag reordering is a permutation: handleDragEnd with a destination *)
(* leaves a list of the same length with the same fields, in which the     *)
(* dragged field sits at the destination index and the other fields keep   *)
(* their relative order; without a destination the list is unchanged and   *)
(* no notification is scheduled.  This is so relative to the field list    *)
(* the drag finds: a reorder computed from the captured list drops no      *)
(* field added, and restores no field removed, by an operation committed   *)
(* just before it.                                                         *)
(***************************************************************************)
\* The list without its entry at index i.
DropIndex(fs, i) == [k \in 1..(Len(fs) - 1) |-> IF k < i THEN fs[k] ELSE fs[k + 1]]

MovedTo(old, new, src, dst) ==
    /\ Len(new) = Len(old)
    /\ src \in DOMAIN old
    /\ new[dst] = old[src]
    /\ DropIndex(new, dst) = DropIndex(old, src)

C27_DragIsPermutation ==
    [][\A src, dst \in DOMAIN captured :
          /\ Handled(handleDragEnd(src, dst, TRUE)) => MovedTo(fields, fields', src, dst)
          /\ Handled(handleDragEnd(src, dst, FALSE)) =>
                (fields' = fields /\ pending' = pending)]_vars

(***************************************************************************)
(* C28. updateField(fieldId, updates) changes one field only: the list     *)
(* keeps its length and order, a field with id fieldId becomes the old     *)
(* field overridden by the updates, every other field is unchanged.        *)
(* removeField of a removable id deletes exactly the fields with that id   *)
(* and keeps the others in order.  addField appends exactly one field at   *)
(* the end and leaves the existing fields unchanged.                       *)
(***************************************************************************)
Overridden(old, new, updates) ==
    /\ DOMAIN new = DOMAIN old
    /\ \A k \in DOMAIN old : new[k] = (IF k \in DOMAIN updates THEN updates[k] ELSE old[k])

UpdatedOnly(old, new, id, updates) ==
    /\ Len(new) = Len(old)
    /\ \A i \in DOMAIN old :
          IF old[i].id = id THEN Overridden(old[i], new[i], updates) ELSE new[i] = old[i]

OtherThan(id, f) == f.id # id

RemovedOnly(old, new, id) == new = SelectSeq(old, LAMBDA f : OtherThan(id, f))

AppendedOne(old, new, type) ==
    /\ Len(new) = Len(old) + 1
    /\ SubSeq(new, 1, Len(old)) = old
    /\ new[Len(new)].type = type
    /\ new[Len(new)].id \notin Ids(old)

C28_ListOperations ==
    [][/\ \A updates \in PanelUpdates :
             Handled(updateField(updates)) =>
                 UpdatedOnly(fields, fields', selectedField.id, updates)
       /\ \A id \in RemovableIds :
             (~RemovalRefused(fields, id) /\ Handled(removeField(id))) =>
                 RemovedOnly(fields, fields', id)
       /\ \A type \in AddableTypes :
             (Handled(addField(type)) /\ idsGenerated' # idsGenerated) =>
                 AppendedOne(fields, fields', type)]_vars

\* A field was added after two others and renamed, and the first field was
\* removed.
C28_Witness ==
    /\ InBuilder
    /\ initialFields = <<TextA, SubmitS>>
    /\ fields = <<SubmitS, BuilderField("field_1", "text", "Renamed", FALSE)>>

(***************************************************************************)
(* C29. Change notification: the changes of the field list are delivered   *)
(* to onFieldsChange in the order they were committed, each with the list  *)
(* it produced, so that once no notification is pending the last list      *)
(* delivered to onFieldsChange is the current field list of the builder.   *)
(***************************************************************************)
\* a notification that leaves none pending
LastNotification == Notify /\ pending' = << >>

C29_NotifiedListIsCurrent ==
    [][/\ Notify => notified' = Head(pending)
       /\ LastNotification => notified' = fields']_vars

(***************************************************************************)
(* C30. Change-time and submit-time validation agree: after the onChange   *)
(* of a control, the error shown for its field (present or absent, and its *)
(* message) is the error a submit made immediately afterwards computes for *)
(* that field; so also for a checkbox, whose value is validated as a       *)
(* boolean on change and as the form-data entry on submit.                 *)
(***************************************************************************)
\* What handleSubmit's validateField call returns for the field with this id
SubmitResult(id) ==
    validateField(FieldWithId(id), FormDataGet(FieldWithId(id), controls[id]))

C30_ChangeAgreesWithSubmit ==
    (InPreview /\ lastEvent.kind = "change") =>
        IF lastEvent.outcome = "throw"
        THEN SubmitResult(lastEvent.id) = Thrown
        ELSE /\ SubmitResult(lastEvent.id) # Thrown
             /\ errors[lastEvent.id] = SubmitResult(lastEvent.id).msg
====
